---------------------------- MODULE Spec2Model ----------------------------
(***************************************************************************)
(* pod-webhook-tracker: the optimistic-concurrency counter update of       *)
(* src/main.go.  An HTTP request (POST /increment or /decrement with a     *)
(* pod_name) runs retry.RetryOnConflict(retry.DefaultBackoff, updateLabel): *)
(* each attempt lists the pod, parses the counter label, applies the       *)
(* delta, mutates the fetched copy and sends it back with Update, which    *)
(* the store accepts only when the copy's resourceVersion is still the     *)
(* stored one.                                                             *)
(*                                                                         *)
(* The record store (the Kubernetes API) is outside the repository: it is  *)
(* modelled as the calls of main.go use it.  List filters by name and      *)
(* label selector, Update compares the resourceVersion carried by the      *)
(* object and every accepted write assigns a new resourceVersion.          *)
(*                                                                         *)
(* Label values are strings, modelled as sequences of one-character        *)
(* strings; strconv.Atoi and strconv.Itoa are computed on them.  Go's int  *)
(* is modelled with IntBits bits (two's complement, wrapping).             *)
(* The response writer is modelled as net/http behaves: the first status   *)
(* written is the response status, later WriteHeader calls are ignored     *)
(* and every write is appended to the body.                                *)
(***************************************************************************)
EXTENDS Integers, Sequences, FiniteSets, TLC

\* ------------------------------------------------------------------ bounds
\* Width of the modelled Go int (the program's is 64).
IntBits == 4
\* Requests in the general scenario.
NumReqs == 2
\* Writes by writers other than this program in the general scenario.
MaxExt == 1

\* retry.DefaultBackoff.Steps: the attempts RetryOnConflict makes.
Steps == 4

\* Concurrent increments in the contention scenario: the fewest that can use
\* up one request's attempts.
NumConc == Steps + 1

\* ------------------------------------------------------------ Go integers
MaxInt == 2 ^ (IntBits - 1) - 1
MinInt == -(2 ^ (IntBits - 1))

\* Go int arithmetic wraps around (two's complement).
WrapInt(x) == ((x - MinInt) % (2 ^ IntBits)) + MinInt

\* --------------------------------------------------------------- strconv
DigitChars == <<"0", "1", "2", "3", "4", "5", "6", "7", "8", "9">>

IsDigit(c) == \E i \in 1..10 : DigitChars[i] = c

DigitVal(c) == (CHOOSE i \in 1..10 : DigitChars[i] = c) - 1

RECURSIVE DigitsOf(_)
DigitsOf(n) ==
    IF n < 10 THEN <<DigitChars[n + 1]>>
    ELSE DigitsOf(n \div 10) \o <<DigitChars[(n % 10) + 1]>>

\* strconv.Itoa (and fmt's %d): the decimal string of n.
Itoa(n) == IF n < 0 THEN <<"-">> \o DigitsOf(-n) ELSE DigitsOf(n)

RECURSIVE Magnitude(_)
Magnitude(s) ==
    IF s = <<>> THEN 0
    ELSE 10 * Magnitude(SubSeq(s, 1, Len(s) - 1)) + DigitVal(s[Len(s)])

\* strconv.Atoi: an optional sign, then one or more decimal digits, the
\* value within the range of int; anything else is an error.
Atoi(s) ==
    LET signed == Len(s) > 0 /\ s[1] \in {"+", "-"}
        digits == IF signed THEN SubSeq(s, 2, Len(s)) ELSE s
        syntax == Len(digits) > 0 /\ \A i \in 1..Len(digits) : IsDigit(digits[i])
        mag    == IF syntax THEN Magnitude(digits) ELSE 0
        val    == IF signed /\ s[1] = "-" THEN -mag ELSE mag
    IN  IF syntax /\ val >= MinInt /\ val <= MaxInt
        THEN [ok |-> TRUE, val |-> val]
        ELSE [ok |-> FALSE, val |-> 0]

\* ----------------------------------------------------------------- labels
EmptyLabels == [k \in {} |-> <<>>]

DeleteLabel(labels, key) == [k \in (DOMAIN labels) \ {key} |-> labels[k]]

SetLabel(labels, key, val) ==
    [k \in (DOMAIN labels) \cup {key} |-> IF k = key THEN val ELSE labels[k]]

\* A label selector is a set of key=value requirements; the empty set is the
\* default "" selector, which selects every pod.
Matches(labels, selector) ==
    \A c \in selector : c.key \in DOMAIN labels /\ labels[c.key] = c.val

\* ------------------------------------------------------------------ state
VARIABLES
    cfg,      \* webhookServer: label, labelSelector, removeOnZero, allowNegative
    store,    \* the pods of the namespace: name -> [exists, labels, rv]
    req,      \* the requests: id -> method, podName, op, position, response
    applied,  \* history: the conditional writes of requests the store accepted
    ext,      \* writes left to writers other than this program
    store0    \* history: the store before the first request

vars == <<cfg, store, req, applied, ext, store0>>

PodNames == {"job-1", "job-2"}

Reqs == DOMAIN req

\* ------------------------------------------------------- response writer
NewResponse == [status |-> 0, body |-> <<>>]

\* http.Error: WriteHeader(code), then the message and a newline.
HttpError(w, msg, code) ==
    [status |-> IF w.status = 0 THEN code ELSE w.status,
     body   |-> w.body \o msg \o <<"\n">>]

\* fmt.Fprintf(w, "%d", newValue): an implicit WriteHeader(200), then the digits.
WriteValue(w, value) ==
    [status |-> IF w.status = 0 THEN 200 ELSE w.status,
     body   |-> w.body \o Itoa(value)]

\* The response of a finished request as the client reads it.
Response(q) == [status |-> q.w.status, body |-> q.w.body]

\* ------------------------------------------------------------ the handlers
\* buildIncrementHandler's callback.
Increment(currentValue) == WrapInt(currentValue + 1)

\* The floor tested with == 0 in place of <= 0.
DecrementFloorsZeroOnly(currentValue) ==
    IF ~cfg.allowNegative /\ currentValue = 0 THEN 0
    ELSE WrapInt(currentValue - 1)

\* buildDecrementHandler's callback.
Decrement(currentValue) ==
    IF ~cfg.allowNegative /\ currentValue <= 0 THEN 0
    ELSE WrapInt(currentValue - 1)

\* The routes wired to the other handler.
CallbackSwapped(op, currentValue) ==
    IF op = "increment" THEN Decrement(currentValue) ELSE Increment(currentValue)

Callback(op, currentValue) ==
    IF op = "increment" THEN Increment(currentValue) ELSE Decrement(currentValue)

\* ------------------------------------------------------------- the store
NoPod == [name |-> "", labels |-> EmptyLabels, rv |-> 0]

\* A List without the LabelSelector.
ListPodsAnyLabels(podName) ==
    IF podName \in PodNames /\ store[podName].exists
    THEN <<[name |-> podName, labels |-> store[podName].labels, rv |-> store[podName].rv]>>
    ELSE <<>>

\* A List without the FieldSelector: with Limit 1, some selected pod of the
\* namespace whatever its name.
ListPodsAnyName(podName) ==
    LET selected == {p \in PodNames : store[p].exists /\ Matches(store[p].labels, cfg.labelSelector)}
        p == CHOOSE p \in selected : TRUE
    IN  IF selected = {} THEN <<>>
        ELSE <<[name |-> p, labels |-> store[p].labels, rv |-> store[p].rv]>>

\* Pods(namespace).List with FieldSelector metadata.name=podName, the
\* configured LabelSelector and Limit 1: a sequence of at most one pod.
ListPods(podName) ==
    IF /\ podName \in PodNames
       /\ store[podName].exists
       /\ Matches(store[podName].labels, cfg.labelSelector)
    THEN <<[name |-> podName, labels |-> store[podName].labels, rv |-> store[podName].rv]>>
    ELSE <<>>

\* An object sent without its resourceVersion: an unconditional update.
UpdateVersionNone(pod) == 0

\* A fresh read of the version right before the write.
UpdateVersionLatest(pod) == store[pod.name].rv

\* The version the write would produce, sent in place of the fetched one.
UpdateVersionNext(pod) == pod.rv + 1

\* The resourceVersion the Update call carries: that of the fetched object,
\* which is the object it sends back (0: none, an unconditional update).
UpdateVersion(pod) == pod.rv

\* Pods(namespace).Update: "ok", "conflict" (the stored resourceVersion is no
\* longer the one carried) or "gone" (no such pod: a NotFound error).
UpdateOutcome(pod) ==
    IF ~store[pod.name].exists THEN "gone"
    ELSE IF UpdateVersion(pod) # 0 /\ UpdateVersion(pod) # store[pod.name].rv THEN "conflict"
    ELSE "ok"

\* No retry at all.
RetriesNever(err, attempt) == FALSE

\* A retry on every conflict, whatever the attempts made.
RetriesUnbounded(err, attempt) == err = "conflict"

\* retry.RetryOnConflict(retry.DefaultBackoff, fn): fn runs again while it
\* returns a conflict error (recognised through trace.Wrap) and fewer than
\* Steps attempts were made; any other error, or none, ends the run.

\* retry.OnError with a predicate that accepts every error.
RetriesOnAnyError(err, attempt) == err # "" /\ attempt < Steps

Retries(err, attempt) == err = "conflict" /\ attempt < Steps

\* ---------------------------------------------------------------- requests
NewRequest(method, podName, op) ==
    [method |-> method, podName |-> podName, op |-> op,
     pc |-> "fetch", attempt |-> 0,
     pod |-> NoPod, labelValue |-> 0, newValue |-> 0,
     w |-> NewResponse, err |-> "", cancelled |-> FALSE,
     fetched |-> NoPod, fetches |-> <<>>]

Finish(q, w, err) == [q EXCEPT !.pc = "done", !.w = w, !.err = err]

\* What ends an attempt with error err: RetryOnConflict runs the next
\* attempt or returns.
EndAttempt(q, w, err) ==
    IF Retries(err, q.attempt)
    THEN [q EXCEPT !.pc = "fetch", !.w = w, !.err = err]
    ELSE Finish(q, w, err)

\* The zero written as a value whatever remove-on-zero says.
MutateLabelsKeepZero(labels, newValue) == SetLabel(labels, cfg.label, Itoa(newValue))

\* The remove-on-zero test negated.
MutateLabelsInverted(labels, newValue) ==
    IF newValue = 0 /\ ~cfg.removeOnZero
    THEN DeleteLabel(labels, cfg.label)
    ELSE SetLabel(labels, cfg.label, Itoa(newValue))

\* updateLabel's mutation of the fetched copy.
MutateLabels(labels, newValue) ==
    IF newValue = 0 /\ cfg.removeOnZero
    THEN DeleteLabel(labels, cfg.label)
    ELSE SetLabel(labels, cfg.label, Itoa(newValue))

\* The error of strconv.Atoi dropped.
ParseLabelLenient(labels) ==
    IF cfg.label \in DOMAIN labels
    THEN [ok |-> TRUE, val |-> Atoi(labels[cfg.label]).val]
    ELSE [ok |-> TRUE, val |-> 0]

\* An absent counter label read as 1.
ParseLabelAbsentOne(labels) ==
    IF cfg.label \in DOMAIN labels
    THEN Atoi(labels[cfg.label])
    ELSE [ok |-> TRUE, val |-> 1]

\* updateLabel's reading of the counter label: absent is 0.
ParseLabel(labels) ==
    IF cfg.label \in DOMAIN labels
    THEN Atoi(labels[cfg.label])
    ELSE [ok |-> TRUE, val |-> 0]

\* The pod_name check made before the method check.
ValidateParamFirst(method, podName) ==
    IF podName = "" THEN "param"
    ELSE IF method # "POST" THEN "method"
    ELSE ""

\* updateLabelRequest's checks, in their order: "method" (405), "param"
\* (400) or "" (the request goes on to the engine).
Validate(method, podName) ==
    IF method # "POST" THEN "method"
    ELSE IF podName = "" THEN "param"
    ELSE ""

\* A context that is never done (context.Background()).
ContextBackground(q) == FALSE

\* The context of the store calls is done: it derives from r.Context(),
\* which ends with the client's connection and with the server's base
\* context (SIGINT, SIGTERM).  A store call under a done context returns
\* the context's error.
ContextDone(q) == q.cancelled

\* The pod of an earlier attempt kept for the next ones.
FetchedPodCached(q, items) == IF q.attempt > 0 THEN q.fetched ELSE items[1]

\* pod := &pods.Items[0]: the pod this attempt's List returned.
FetchedPod(q, items) == items[1]

\* History only: why a List came back empty.
EmptyKind(podName) ==
    IF podName \in PodNames /\ store[podName].exists THEN "unselected" ELSE "absent"

\* updateLabelRequest up to the first store call, and updateLabel from its
\* start to the Update call: validation (first attempt only), List, the
\* not-found check, the parse, the callback and the mutation of the copy.
Fetch(r) ==
    /\ req[r].pc = "fetch"
    /\ LET q == req[r]
           a == [q EXCEPT !.attempt = q.attempt + 1]
           items == ListPods(q.podName)
       IN  req' = [req EXCEPT ![r] =
             IF q.attempt = 0 /\ Validate(q.method, q.podName) = "method"
             THEN Finish(q, HttpError(q.w, <<"Method not allowed">>, 405), "method")
             ELSE IF q.attempt = 0 /\ Validate(q.method, q.podName) = "param"
             THEN Finish(q, HttpError(q.w, <<"Missing pod_name query parameter">>, 400), "param")
             ELSE IF ContextDone(q)
             THEN EndAttempt([a EXCEPT !.fetches = Append(q.fetches, "error")],
                             HttpError(q.w, <<"Failed to list pods: context canceled">>, 500), "list")
             ELSE IF Len(items) = 0
             THEN EndAttempt([a EXCEPT !.fetches = Append(q.fetches, EmptyKind(q.podName))],
                             HttpError(q.w, <<"Pod not found">>, 404), "notfound")
             ELSE LET pod == FetchedPod(q, items)
                      parsed == ParseLabel(pod.labels)
                      newValue == Callback(q.op, parsed.val)
                  IN  IF ~parsed.ok
                      THEN EndAttempt([a EXCEPT !.fetches = Append(q.fetches, "corrupt"),
                                                !.fetched = pod, !.pod = pod],
                                      HttpError(q.w, <<"Invalid label value: ">> \o pod.labels[cfg.label], 500),
                                      "atoi")
                      ELSE [a EXCEPT !.pc = "update",
                                     !.fetches = Append(q.fetches, "found"),
                                     !.labelValue = parsed.val,
                                     !.newValue = newValue,
                                     !.fetched = pod,
                                     !.pod = [pod EXCEPT !.labels = MutateLabels(pod.labels, newValue)]]]
    /\ UNCHANGED <<cfg, store, applied, ext, store0>>

\* updateLabel's Update call and what follows it.
Update(r) ==
    /\ req[r].pc = "update"
    /\ LET q == req[r]
           outcome == IF ContextDone(q) THEN "update" ELSE UpdateOutcome(q.pod)
       IN  IF outcome = "ok"
           THEN /\ store' = [store EXCEPT ![q.pod.name] =
                                [exists |-> TRUE, labels |-> q.pod.labels, rv |-> @.rv + 1]]
                /\ req' = [req EXCEPT ![r] = Finish(q, WriteValue(q.w, q.newValue), "")]
                /\ applied' = applied \cup
                      {[req |-> r, pod |-> q.pod.name, baseRv |-> q.pod.rv,
                        base |-> q.labelValue, new |-> q.newValue, attempt |-> q.attempt,
                        rv |-> store[q.pod.name].rv + 1]}
           ELSE /\ req' = [req EXCEPT ![r] =
                      EndAttempt(q, HttpError(q.w, <<"Failed to update pod label">>, 500), outcome)]
                /\ UNCHANGED <<store, applied>>
    /\ UNCHANGED <<cfg, ext, store0>>

\* The List call fails (the store cannot be reached, a timeout, a refusal).
FetchError(r) ==
    /\ req[r].pc = "fetch"
    /\ LET q == req[r]
       IN  /\ q.attempt > 0 \/ Validate(q.method, q.podName) = ""
           /\ req' = [req EXCEPT ![r] =
                 EndAttempt([q EXCEPT !.attempt = q.attempt + 1,
                                      !.fetches = Append(q.fetches, "error")],
                            HttpError(q.w, <<"Failed to list pods: unavailable">>, 500), "list")]
    /\ UNCHANGED <<cfg, store, applied, ext, store0>>

\* The Update call fails for a reason other than a version conflict.
UpdateError(r) ==
    /\ req[r].pc = "update"
    /\ req' = [req EXCEPT ![r] =
          EndAttempt(req[r], HttpError(req[r].w, <<"Failed to update pod label">>, 500), "update")]
    /\ UNCHANGED <<cfg, store, applied, ext, store0>>

\* The context of an in-flight request ends: the client went away, or the
\* process was told to stop.
Cancel(r) ==
    /\ req[r].pc # "done"
    /\ ~req[r].cancelled
    /\ req' = [req EXCEPT ![r].cancelled = TRUE]
    /\ UNCHANGED <<cfg, store, applied, ext, store0>>

\* ------------------------------------------- the register/unregister engine
\* The second definition of the program in the source: the routes
\* register-job and unregister-job, the label name fixed, no floor, the label
\* deleted for every new value <= 0, the response naming the value read.
activeJobsLabel == "active-jobs"

\* buildRegisterJobHandler's callback.
RegisterJob(currentValue) == WrapInt(currentValue + 1)

\* buildUnregisterJobHandler's callback.
UnregisterJob(currentValue) == WrapInt(currentValue - 1)

JobsCallback(op, currentValue) ==
    IF op = "register-job" THEN RegisterJob(currentValue) ELSE UnregisterJob(currentValue)

\* updateJobsLabel's reading of the label: absent is 0.
ParseJobsLabel(labels) ==
    IF activeJobsLabel \in DOMAIN labels
    THEN Atoi(labels[activeJobsLabel])
    ELSE [ok |-> TRUE, val |-> 0]

\* updateJobsLabel's mutation of the fetched copy.
MutateJobsLabels(labels, newValue) ==
    IF newValue <= 0
    THEN DeleteLabel(labels, activeJobsLabel)
    ELSE SetLabel(labels, activeJobsLabel, Itoa(newValue))

\* fmt.Fprintf(w, "%s label updated to %d for pod %s", activeJobsLabel,
\* activeJobs, podName): the value read, not the new one.
WriteJobsValue(w, activeJobs, podName) ==
    [status |-> IF w.status = 0 THEN 200 ELSE w.status,
     body   |-> w.body \o <<activeJobsLabel, " label updated to ">> \o Itoa(activeJobs)
                       \o <<" for pod ", podName>>]

NewJobsRequest(method, podName, op) ==
    [NewRequest(method, podName, op) EXCEPT !.pc = "fetchJobs"]

EndJobsAttempt(q, w, err) ==
    IF Retries(err, q.attempt)
    THEN [q EXCEPT !.pc = "fetchJobs", !.w = w, !.err = err]
    ELSE Finish(q, w, err)

\* updateJobsLabelRequest up to the first store call, and updateJobsLabel
\* from its start to the Update call.
FetchJobs(r) ==
    /\ req[r].pc = "fetchJobs"
    /\ LET q == req[r]
           a == [q EXCEPT !.attempt = q.attempt + 1]
           items == ListPods(q.podName)
       IN  req' = [req EXCEPT ![r] =
             IF q.attempt = 0 /\ Validate(q.method, q.podName) = "method"
             THEN Finish(q, HttpError(q.w, <<"Method not allowed">>, 405), "method")
             ELSE IF q.attempt = 0 /\ Validate(q.method, q.podName) = "param"
             THEN Finish(q, HttpError(q.w, <<"Missing pod_name query parameter">>, 400), "param")
             ELSE IF ContextDone(q)
             THEN EndJobsAttempt([a EXCEPT !.fetches = Append(q.fetches, "error")],
                                 HttpError(q.w, <<"Failed to list pods: context canceled">>, 500), "list")
             ELSE IF Len(items) = 0
             THEN EndJobsAttempt([a EXCEPT !.fetches = Append(q.fetches, EmptyKind(q.podName))],
                                 HttpError(q.w, <<"Pod not found">>, 404), "notfound")
             ELSE LET pod == FetchedPod(q, items)
                      parsed == ParseJobsLabel(pod.labels)
                      newValue == JobsCallback(q.op, parsed.val)
                  IN  IF ~parsed.ok
                      THEN EndJobsAttempt([a EXCEPT !.fetches = Append(q.fetches, "corrupt"),
                                                    !.fetched = pod, !.pod = pod],
                                          HttpError(q.w, <<"Invalid active-jobs label value: ", "\"">>
                                                           \o pod.labels[activeJobsLabel] \o <<"\"">>, 500),
                                          "atoi")
                      ELSE [a EXCEPT !.pc = "updateJobs",
                                     !.fetches = Append(q.fetches, "found"),
                                     !.labelValue = parsed.val,
                                     !.newValue = newValue,
                                     !.fetched = pod,
                                     !.pod = [pod EXCEPT !.labels = MutateJobsLabels(pod.labels, newValue)]]]
    /\ UNCHANGED <<cfg, store, applied, ext, store0>>

\* updateJobsLabel's Update call and what follows it.
UpdateJobs(r) ==
    /\ req[r].pc = "updateJobs"
    /\ LET q == req[r]
           outcome == IF ContextDone(q) THEN "update" ELSE UpdateOutcome(q.pod)
       IN  IF outcome = "ok"
           THEN /\ store' = [store EXCEPT ![q.pod.name] =
                                [exists |-> TRUE, labels |-> q.pod.labels, rv |-> @.rv + 1]]
                /\ req' = [req EXCEPT ![r] =
                              Finish(q, WriteJobsValue(q.w, q.labelValue, q.podName), "")]
                /\ applied' = applied \cup
                      {[req |-> r, pod |-> q.pod.name, baseRv |-> q.pod.rv,
                        base |-> q.labelValue, new |-> q.newValue, attempt |-> q.attempt,
                        rv |-> store[q.pod.name].rv + 1]}
           ELSE /\ req' = [req EXCEPT ![r] =
                      EndJobsAttempt(q, HttpError(q.w, <<"Failed to update pod label">>, 500), outcome)]
                /\ UNCHANGED <<store, applied>>
    /\ UNCHANGED <<cfg, ext, store0>>

\* A writer other than this program replaces the counter label of a pod.
ExtValues == {<<"a", "b", "c">>}

ExternalWrite(p) ==
    /\ ext > 0
    /\ store[p].exists
    /\ \E v \in ExtValues :
         store' = [store EXCEPT ![p].labels = SetLabel(@, cfg.label, v), ![p].rv = @ + 1]
    /\ ext' = ext - 1
    /\ UNCHANGED <<cfg, req, applied, store0>>

\* A writer other than this program deletes a pod.
ExternalDelete(p) ==
    /\ ext > 0
    /\ store[p].exists
    /\ store' = [store EXCEPT ![p] = [exists |-> FALSE, labels |-> EmptyLabels, rv |-> 0]]
    /\ ext' = ext - 1
    /\ UNCHANGED <<cfg, req, applied, store0>>

\* ----------------------------------------------------------- the scenarios
Selector == {[key |-> "app", val |-> <<"x">>]}

Configs(selectors, removeOnZero, allowNegative) ==
    [label : {"active-jobs"}, labelSelector : selectors,
     removeOnZero : removeOnZero, allowNegative : allowNegative]

\* Request identifiers are arbitrary: the operations are listed in one order.
Ordered(ops) == \A i, j \in DOMAIN ops : i < j => (ops[i] = "increment" \/ ops[j] = "decrement")

\* The label sets a pod starts with: selected or not, the counter label
\* absent or one of counters.
LabelSets(counters) ==
    LET base == {EmptyLabels, SetLabel(EmptyLabels, "app", <<"x">>)}
    IN  base \cup {SetLabel(b, "active-jobs", c) : b \in base, c \in counters}

\* General scenario: NumReqs requests of either operation on two pods, other
\* writers, every configuration.
InitCounters == {<<"0">>, <<"1">>, Itoa(MaxInt), <<"a", "b", "c">>}

Init ==
    /\ cfg \in Configs({{}, Selector}, BOOLEAN, BOOLEAN)
    /\ \E l \in LabelSets(InitCounters) :
         store = [p \in PodNames |->
                    IF p = "job-1" THEN [exists |-> TRUE, labels |-> l, rv |-> 1]
                    ELSE [exists |-> FALSE, labels |-> EmptyLabels, rv |-> 0]]
    /\ \E ops \in [1..NumReqs -> {"increment", "decrement"}] :
         /\ Ordered(ops)
         /\ req = [r \in 1..NumReqs |-> NewRequest("POST", "job-1", ops[r])]
    /\ applied = {}
    /\ ext = MaxExt
    /\ store0 = store

Next ==
    \/ \E r \in Reqs : Fetch(r)
    \/ \E r \in Reqs : Update(r)
    \/ \E p \in PodNames : ExternalWrite(p)
    \/ \E p \in PodNames : ExternalDelete(p)

Spec == Init /\ [][Next]_vars

\* Contention scenario: up to NumConc concurrent POST /increment requests on
\* one existing pod, no other writer, a store that answers every call.
ConcCounters == {Itoa(MaxInt - 2)}

InitConc ==
    /\ cfg \in Configs({{}}, {TRUE}, {FALSE})
    /\ \E l \in {EmptyLabels} \cup {SetLabel(EmptyLabels, "active-jobs", c) : c \in ConcCounters} :
         store = [p \in PodNames |->
                    IF p = "job-1" THEN [exists |-> TRUE, labels |-> l, rv |-> 1]
                    ELSE [exists |-> FALSE, labels |-> EmptyLabels, rv |-> 0]]
    /\ \E n \in 1..NumConc : req = [r \in 1..n |-> NewRequest("POST", "job-1", "increment")]
    /\ applied = {}
    /\ ext = 0
    /\ store0 = store

NextConc ==
    \/ \E r \in Reqs : Fetch(r)
    \/ \E r \in Reqs : Update(r)

SpecConc == InitConc /\ [][NextConc]_vars

\* Sequential scenario: SeqLen POST requests on one existing pod, each sent
\* when the one before it has been answered; no other writer.
SeqLen == 4

SeqCounters == {<<"0">>, <<"1">>, <<"-", "1">>, <<"-", "2">>}

InitSeq ==
    /\ cfg \in Configs({{}}, BOOLEAN, BOOLEAN)
    /\ \E l \in {EmptyLabels} \cup {SetLabel(EmptyLabels, "active-jobs", c) : c \in SeqCounters} :
         store = [p \in PodNames |->
                    IF p = "job-1" THEN [exists |-> TRUE, labels |-> l, rv |-> 1]
                    ELSE [exists |-> FALSE, labels |-> EmptyLabels, rv |-> 0]]
    /\ \E ops \in [1..SeqLen -> {"increment", "decrement"}] :
         req = [r \in 1..SeqLen |-> NewRequest("POST", "job-1", ops[r])]
    /\ applied = {}
    /\ ext = 0
    /\ store0 = store

\* The requests before r have been answered.
Turn(r) == \A s \in 1..(r - 1) : req[s].pc = "done"

NextSeq ==
    \/ \E r \in Reqs : Turn(r) /\ Fetch(r)
    \/ \E r \in Reqs : Turn(r) /\ Update(r)

SpecSeq == InitSeq /\ [][NextSeq]_vars

\* Routing scenario: NumReqs concurrent requests of any method, with or
\* without pod_name, on two existing pods that carry another label; no other
\* writer.
Methods == {"POST", "GET"}

RouteNames == {"", "job-1", "job-2"}

RouteCounters == {<<"0">>, <<"1">>}

RouteLabels ==
    LET base == SetLabel(EmptyLabels, "app", <<"x">>)
    IN  {base} \cup {SetLabel(base, "active-jobs", c) : c \in RouteCounters}

\* Request identifiers are arbitrary: the requests are listed in one order.
RouteRank(q) ==
    (IF q.method = "POST" THEN 0 ELSE 6)
      + (IF q.podName = "" THEN 0 ELSE IF q.podName = "job-1" THEN 2 ELSE 4)
      + (IF q.op = "increment" THEN 0 ELSE 1)

InitRoutes ==
    /\ cfg \in Configs({{}}, BOOLEAN, BOOLEAN)
    /\ \E l1, l2 \in RouteLabels :
         store = [p \in PodNames |->
                    [exists |-> TRUE, labels |-> IF p = "job-1" THEN l1 ELSE l2, rv |-> 1]]
    /\ req \in [1..NumReqs ->
                  {NewRequest(m, n, o) : m \in Methods, n \in RouteNames,
                                         o \in {"increment", "decrement"}}]
    /\ \A i, j \in DOMAIN req : i < j => RouteRank(req[i]) <= RouteRank(req[j])
    /\ applied = {}
    /\ ext = 0
    /\ store0 = store

NextRoutes ==
    \/ \E r \in Reqs : Fetch(r)
    \/ \E r \in Reqs : Update(r)

SpecRoutes == InitRoutes /\ [][NextRoutes]_vars

\* Fault scenario: NumReqs concurrent POST requests on one existing pod under
\* the default flags; a store call may fail, a request's context may end, the
\* pod may be deleted.
FaultCounters == {<<"1">>}

InitFault ==
    /\ cfg \in Configs({{}}, {TRUE}, {FALSE})
    /\ \E l \in {EmptyLabels} \cup {SetLabel(EmptyLabels, "active-jobs", c) : c \in FaultCounters} :
         store = [p \in PodNames |->
                    IF p = "job-1" THEN [exists |-> TRUE, labels |-> l, rv |-> 1]
                    ELSE [exists |-> FALSE, labels |-> EmptyLabels, rv |-> 0]]
    /\ \E ops \in [1..NumReqs -> {"increment", "decrement"}] :
         /\ Ordered(ops)
         /\ req = [r \in 1..NumReqs |-> NewRequest("POST", "job-1", ops[r])]
    /\ applied = {}
    /\ ext = MaxExt
    /\ store0 = store

NextFault ==
    \/ \E r \in Reqs : Fetch(r)
    \/ \E r \in Reqs : Update(r)
    \/ \E r \in Reqs : FetchError(r)
    \/ \E r \in Reqs : UpdateError(r)
    \/ \E r \in Reqs : Cancel(r)
    \/ \E p \in PodNames : ExternalDelete(p)

SpecFault == InitFault /\ [][NextFault]_vars

\* The handler's goroutine keeps running: a request whose next store call
\* can be made makes it.
SpecFaultFair ==
    SpecFault /\ \A r \in 1..NumReqs : WF_vars(Fetch(r) \/ Update(r))

\* Comparison scenario: the same SeqLen operations, one after the other, by
\* the increment/decrement engine under the default policy on job-1 and by
\* the register/unregister engine on job-2, the two pods starting alike with
\* the counter label absent or a non-negative integer; no other writer.
DraftCounters == {<<"0">>, <<"1">>, <<"2">>, Itoa(MaxInt)}

\* The route of the second engine that stands for a route of the first.
JobsOp(op) == IF op = "increment" THEN "register-job" ELSE "unregister-job"

InitDraft ==
    /\ cfg \in Configs({{}}, {TRUE}, {FALSE})
    /\ \E l \in {EmptyLabels} \cup {SetLabel(EmptyLabels, "active-jobs", c) : c \in DraftCounters} :
         store = [p \in PodNames |-> [exists |-> TRUE, labels |-> l, rv |-> 1]]
    /\ \E ops \in [1..SeqLen -> {"increment", "decrement"}] :
         req = [r \in 1..(2 * SeqLen) |->
                  IF r % 2 = 1
                  THEN NewRequest("POST", "job-1", ops[(r + 1) \div 2])
                  ELSE NewJobsRequest("POST", "job-2", JobsOp(ops[r \div 2]))]
    /\ applied = {}
    /\ ext = 0
    /\ store0 = store

NextDraft ==
    \/ \E r \in Reqs : Turn(r) /\ Fetch(r)
    \/ \E r \in Reqs : Turn(r) /\ Update(r)
    \/ \E r \in Reqs : Turn(r) /\ FetchJobs(r)
    \/ \E r \in Reqs : Turn(r) /\ UpdateJobs(r)

SpecDraft == InitDraft /\ [][NextDraft]_vars

\* ------------------------------------------------------------------ claims
Done(r) == req[r].pc = "done"

AllDone == \A r \in Reqs : Done(r)

\* The counter label of a label set is present and no base-10 integer.
Corrupt(labels) ==
    cfg.label \in DOMAIN labels /\ ~Atoi(labels[cfg.label]).ok

\* The counter label of a label set is a negative integer.
Negative(labels) ==
    cfg.label \in DOMAIN labels /\ Atoi(labels[cfg.label]).ok /\ Atoi(labels[cfg.label]).val < 0

\* The counter a store holds for a pod: [ok, val], an absent label being 0.
Counter(st, p) ==
    IF cfg.label \in DOMAIN st[p].labels
    THEN Atoi(st[p].labels[cfg.label])
    ELSE [ok |-> TRUE, val |-> 0]

\* What r's latest List found: "absent", "unselected", "corrupt" or "found".
LastFetch(r) ==
    IF req[r].fetches = <<>> THEN "" ELSE req[r].fetches[Len(req[r].fetches)]

FirstFetch(r) ==
    IF req[r].fetches = <<>> THEN "" ELSE req[r].fetches[1]

NotFoundResponse == [status |-> 404, body |-> <<"Pod not found", "\n">>]

\* The requests this program's accepted writes belong to.
Writers == {a.req : a \in applied}

\* The requests that ended because every attempt met a version conflict.
Exhausted == {r \in Reqs : Done(r) /\ req[r].err = "conflict"}

AllIncrements ==
    \A r \in Reqs : req[r].method = "POST" /\ req[r].podName = "job-1" /\ req[r].op = "increment"

\* C1 as stated: once all N concurrent increments on one record have finished
\* (no other writer), the stored counter is v0 + N, whatever the conflicts.
\* Stated where v0 + N is within the range of int.
C1_NoLostUpdates ==
    LET v0 == Counter(store0, "job-1").val
        n  == Cardinality(Reqs)
    IN  (AllIncrements /\ AllDone /\ v0 + n <= MaxInt)
          => (Counter(store, "job-1").ok /\ Counter(store, "job-1").val = v0 + n)

\* C1 amended: once all N concurrent increments have finished, the stored
\* counter is v0 plus the number of requests whose write was accepted (in
\* wrapping int arithmetic); every request either had its write accepted or
\* used up its Steps attempts on conflicts, answered 500 and wrote nothing;
\* with N <= Steps no request uses up its attempts, so the counter is v0 + N.
C1_AcceptedUpdatesCounted ==
    LET v0 == Counter(store0, "job-1").val
        n  == Cardinality(Reqs)
    IN  (AllIncrements /\ AllDone) =>
          /\ Counter(store, "job-1").ok
          /\ Counter(store, "job-1").val = WrapInt(v0 + n - Cardinality(Exhausted))
          /\ Writers = Reqs \ Exhausted
          /\ Cardinality(applied) = Cardinality(Writers)
          /\ \A r \in Exhausted : req[r].w.status = 500 /\ req[r].attempt = Steps
          /\ (n <= Steps => Exhausted = {})

C1_Witness ==
    /\ AllIncrements /\ AllDone
    /\ Cardinality(Reqs) = NumConc
    /\ Exhausted # {}
    /\ \E a \in applied : a.attempt > 1

\* C2: of two conditional writes on the same record computed from the same
\* fetched version, at most one is accepted by the store.
C2_OneWinnerPerVersion ==
    \A a, b \in applied :
        (a.pod = b.pod /\ a.baseRv = b.baseRv) => a = b

C2_Witness ==
    \E a \in applied : \E r \in Reqs \ {a.req} :
        /\ req[r].err = "conflict"
        /\ req[r].fetched.name = a.pod
        /\ req[r].fetched.rv = a.baseRv
        /\ req[r].labelValue = a.base

\* C3: every request whose write was accepted, on whichever attempt, answers
\* 200 with exactly the decimal string of the value it wrote.
C3_SuccessResponse ==
    \A a \in applied :
        Response(req[a.req]) = [status |-> 200, body |-> Itoa(a.new)]

\* The conditional write of r is about to be rejected for version conflict.
VersionStale(r) ==
    /\ req[r].pc = "update"
    /\ store[req[r].pod.name].exists
    /\ store[req[r].pod.name].rv # req[r].fetched.rv

\* C4: a rejected conditional write does not end the request while attempts
\* are left: the request fetches again, parses, computes and writes from
\* what it fetched; its run ends with the conflict error only when the
\* Steps attempts are used up.
C4_ConflictRetried ==
    /\ [][\A r \in Reqs :
            /\ (VersionStale(r) /\ req'[r] # req[r]) =>
                  /\ store' = store
                  /\ IF req[r].attempt < Steps
                     THEN req'[r].pc = "fetch" /\ req'[r].attempt = req[r].attempt
                     ELSE req'[r].pc = "done" /\ req'[r].err = "conflict"
            /\ (req[r].pc = "fetch" /\ req[r].err = "conflict" /\ req'[r] # req[r]) =>
                  /\ req'[r].attempt = req[r].attempt + 1
                  /\ req'[r].pc = "update"
                  /\ req'[r].fetched.rv = store[req[r].podName].rv
                  /\ req'[r].labelValue = Counter(store, req[r].podName).val
                  /\ req'[r].newValue = Callback(req[r].op, req'[r].labelValue)]_vars
    /\ [](\A r \in Reqs : (Done(r) /\ req[r].err = "conflict") => req[r].attempt = Steps)

C4_Witness ==
    /\ \E r \in Exhausted : req[r].attempt = Steps
    /\ \E a \in applied : a.attempt = 2 /\ req[a.req].err = ""

\* C5: a request makes at most Steps attempts, each one fetch and at most one
\* write, and is over after the last; a request whose attempts were all
\* rejected for version conflict answers 500 and has written nothing.
C5_BoundedRetry ==
    \A r \in Reqs :
        /\ req[r].attempt <= Steps
        /\ Len(req[r].fetches) = req[r].attempt
        /\ (req[r].pc = "fetch" => req[r].attempt < Steps)
        /\ req[r].pc \in {"fetch", "update", "done"}
        /\ (r \in Exhausted =>
              /\ req[r].attempt = Steps
              /\ req[r].w.status = 500
              /\ req[r].fetches = [i \in 1..Steps |-> "found"]
              /\ r \notin Writers)

C5_Witness ==
    \E r \in Exhausted : req[r].attempt = Steps /\ Cardinality(Writers) = Steps

\* C6: a request naming a pod that exists but does not match the label
\* selector is answered exactly as a request naming a pod that does not
\* exist, 404 "Pod not found", and the pod is not written.
C6_SelectorEnforced ==
    /\ \A r \in Reqs :
          FirstFetch(r) = "unselected" =>
            /\ Done(r)
            /\ Response(req[r]) = NotFoundResponse
            /\ req[r].attempt = 1
            /\ r \notin Writers
            /\ \A r2 \in Reqs :
                  FirstFetch(r2) = "absent" => Response(req[r2]) = Response(req[r])
    /\ \A p \in PodNames :
          (store[p].exists /\ ~Matches(store[p].labels, cfg.labelSelector)) =>
            /\ \A a \in applied : a.pod # p
            /\ DeleteLabel(store[p].labels, cfg.label) = DeleteLabel(store0[p].labels, cfg.label)
            /\ (ext = MaxExt => store[p] = store0[p])

C6_Witness ==
    \E r1, r2 \in Reqs :
        /\ Done(r1) /\ FirstFetch(r1) = "unselected"
        /\ Done(r2) /\ FirstFetch(r2) = "absent"

\* C7: whenever a List for the named pod comes back empty, on whichever
\* attempt, the request answers 404, makes no write and no further attempt.
C7_NotFoundIs404 ==
    \A r \in Reqs :
        LastFetch(r) \in {"absent", "unselected"} =>
          /\ Done(r)
          /\ req[r].w.status = 404
          /\ req[r].attempt = Len(req[r].fetches)
          /\ r \notin Writers

\* C8: a fetched counter label that is no base-10 integer ends the request
\* with 500, without a write and without another attempt, and this
\* program's writes leave such a label as it is; an absent label is read as
\* 0 and the request goes on to its write.
C8_CorruptValue ==
    /\ [](\A r \in Reqs :
            /\ (req[r].fetches # <<>> /\ Corrupt(req[r].fetched.labels)) =>
                  /\ Done(r)
                  /\ req[r].w.status = 500
                  /\ req[r].err = "atoi"
                  /\ req[r].attempt = Len(req[r].fetches)
                  /\ r \notin Writers
            /\ (LastFetch(r) = "found" /\ cfg.label \notin DOMAIN req[r].fetched.labels) =>
                  /\ req[r].labelValue = 0
                  /\ req[r].err # "atoi"
                  /\ (req[r].pc = "update" \/ r \in Writers \/ req[r].err \in {"conflict", "gone"}))
    /\ [][\A p \in PodNames :
            (store[p].exists /\ Corrupt(store[p].labels) /\ applied' # applied)
               => store'[p] = store[p]]_vars

C8_Witness ==
    \E r1, r2 \in Reqs :
        /\ Done(r1) /\ Corrupt(req[r1].fetched.labels) /\ req[r1].attempt = 2
        /\ r2 \in Writers /\ cfg.label \notin DOMAIN req[r2].fetched.labels

\* C9: with allow-negative off, from a counter label that is absent or a
\* non-negative integer, the stored counter label is never a negative
\* integer and no response body shows a negative value.
C9_NonNegative ==
    (/\ ~cfg.allowNegative
     /\ \A p \in PodNames : ~Negative(store0[p].labels) /\ ~Corrupt(store0[p].labels))
      => /\ \A p \in PodNames : ~Negative(store[p].labels)
         /\ \A r \in Reqs : \A i \in 1..Len(req[r].w.body) : req[r].w.body[i] # "-"

\* C10: with allow-negative off, a decrement whose write is accepted from a
\* counter of 0 (label "0" or absent) writes the value 0, answers 200 with
\* body 0, and with remove-on-zero leaves the label absent.
C10_FloorAtZero ==
    ~cfg.allowNegative =>
      \A a \in applied :
          (req[a.req].op = "decrement" /\ a.base = 0) =>
            /\ a.new = 0
            /\ Response(req[a.req]) = [status |-> 200, body |-> <<"0">>]
            /\ (cfg.removeOnZero => cfg.label \notin DOMAIN req[a.req].pod.labels)

\* The accepted write that produced the pod's current version, if it is one
\* of this program's.
LatestWrites(p) == {a \in applied : a.pod = p /\ store[p].exists /\ a.rv = store[p].rv}

\* C11: after a decrement whose computed value is 0 has had its write
\* accepted, the stored pod has no counter label when remove-on-zero is true
\* and has the counter label with the value "0" when it is false (as long as
\* no later write replaced that version).
C11_RemoveOnZero ==
    \A p \in PodNames : \A a \in LatestWrites(p) :
       (req[a.req].op = "decrement" /\ a.new = 0) =>
          IF cfg.removeOnZero
          THEN cfg.label \notin DOMAIN store[p].labels
          ELSE cfg.label \in DOMAIN store[p].labels /\ store[p].labels[cfg.label] = <<"0">>

\* A decrement from 1 was accepted and removed the label it found.
C11_Witness ==
    \E a \in LatestWrites("job-1") :
       /\ req[a.req].op = "decrement" /\ a.base = 1 /\ a.new = 0
       /\ cfg.removeOnZero
       /\ cfg.label \in DOMAIN store0["job-1"].labels
       /\ cfg.label \notin DOMAIN store["job-1"].labels

\* The spec's scenario: default policy, job-1 without the counter label, the
\* first four requests being increment, increment, decrement, decrement.
Scenario ==
    /\ cfg.removeOnZero /\ ~cfg.allowNegative
    /\ cfg.label \notin DOMAIN store0["job-1"].labels
    /\ SeqLen >= 4
    /\ <<req[1].op, req[2].op, req[3].op, req[4].op>>
          = <<"increment", "increment", "decrement", "decrement">>

\* The response 200 whose body is the given digits.
OkResponse(digits) == [status |-> 200, body |-> digits]

\* C12: in the scenario (job-1 without the counter label, default policy,
\* POST increment, increment, decrement, decrement one after the other) the
\* four responses are 200 with bodies 1, 2, 1, 0, the stored label is
\* active-jobs=1 after the first request and absent after the last.
C12_Scenario ==
    Scenario =>
       /\ Done(1) => Response(req[1]) = OkResponse(<<"1">>)
       /\ (Done(1) /\ req[2].attempt = 0) =>
             /\ cfg.label \in DOMAIN store["job-1"].labels
             /\ store["job-1"].labels[cfg.label] = <<"1">>
       /\ Done(2) => Response(req[2]) = OkResponse(<<"2">>)
       /\ Done(3) => Response(req[3]) = OkResponse(<<"1">>)
       /\ Done(4) => Response(req[4]) = OkResponse(<<"0">>)
       /\ (Done(4) /\ (SeqLen > 4 => req[5].attempt = 0)) =>
             cfg.label \notin DOMAIN store["job-1"].labels

\* The four requests of the scenario have been answered, each write accepted.
C12_Witness ==
    /\ Scenario
    /\ \A r \in 1..4 : Done(r) /\ r \in Writers
    /\ cfg.label \notin DOMAIN store["job-1"].labels

\* C13 as stated: every accepted increment from a counter value v stores and
\* computes v + 1, whatever v and whatever the flags.
C13_NoCeiling ==
    \A a \in applied : req[a.req].op = "increment" => a.new = a.base + 1

\* What updateLabelRequest must refuse: a method other than POST, or no pod
\* name.
Invalid(r) == req[r].method # "POST" \/ req[r].podName = ""

\* C14: a request whose method is not POST is answered 405 whether or not it
\* names a pod, a POST without (or with an empty) pod_name is answered 400,
\* and for both the engine is not run: no List, no attempt, no write; while
\* all requests are of that kind the store is what it was.
C14_RequestValidation ==
    /\ \A r \in Reqs :
          Invalid(r) =>
             /\ req[r].attempt = 0 /\ req[r].fetches = <<>> /\ req[r].fetched = NoPod
             /\ r \notin Writers
             /\ req[r].pc \in {"fetch", "done"}
             /\ Done(r) => req[r].w.status = (IF req[r].method # "POST" THEN 405 ELSE 400)
    /\ (\A r \in Reqs : Invalid(r)) => store = store0

\* A GET without pod_name was answered 405 and a POST without it 400.
C14_Witness ==
    /\ \E r \in Reqs : req[r].method = "GET" /\ req[r].podName = "" /\ Done(r)
                       /\ req[r].w.status = 405
    /\ \E r \in Reqs : req[r].method = "POST" /\ req[r].podName = "" /\ Done(r)
                       /\ req[r].w.status = 400

\* C16: a step of a request that names pod A leaves every other pod as it
\* is and changes of A at most the counter label (its other labels and its
\* existence stay); and a write of A is rejected for a version conflict only
\* when another write on A itself was accepted after the request's fetch, so
\* never because of a request on another pod.
C16_Isolation ==
    /\ [][\A r \in Reqs :
            req'[r] # req[r] =>
               \A p \in PodNames :
                  IF p = req[r].podName
                  THEN /\ store'[p].exists = store[p].exists
                       /\ DeleteLabel(store'[p].labels, cfg.label)
                             = DeleteLabel(store[p].labels, cfg.label)
                  ELSE store'[p] = store[p]]_vars
    /\ [][\A r \in Reqs :
            (req[r].pc = "update" /\ req'[r] # req[r] /\ req'[r].err = "conflict") =>
               \E a \in applied : /\ a.pod = req[r].podName
                                  /\ a.req # r
                                  /\ a.rv > req[r].fetched.rv]_vars
    /\ []((\A r, s \in Reqs : r # s => req[r].podName # req[s].podName)
            => \A r \in Reqs : req[r].err # "conflict")

\* Two requests, one on each pod, both wrote: each pod holds its own new
\* counter and its other label.
C16_Witness ==
    \E r, s \in Writers :
       /\ req[r].podName = "job-1" /\ req[s].podName = "job-2"
       /\ req[r].op = "increment" /\ req[s].op = "decrement"
       /\ store["job-1"].rv = 2 /\ store["job-2"].rv = 2
       /\ store["job-1"].labels["app"] = <<"x">> /\ store["job-2"].labels["app"] = <<"x">>
       /\ Counter(store, "job-1").val = Counter(store0, "job-1").val + 1

\* The POST requests that name pod p.
RequestsOn(p) == {r \in Reqs : req[r].method = "POST" /\ req[r].podName = p}

\* The counter label of p as stored: <<>> when absent, else <<value>>.
StoredLabel(st, p) ==
    IF cfg.label \in DOMAIN st[p].labels THEN <<st[p].labels[cfg.label]>> ELSE <<>>

\* job-1 starts without the counter label, job-2 with the label "0", and
\* each is named by one request, the two of the same operation.
AbsentAndZero(r, s) ==
    /\ StoredLabel(store0, "job-1") = <<>>
    /\ StoredLabel(store0, "job-2") = << <<"0">> >>
    /\ RequestsOn("job-1") = {r} /\ RequestsOn("job-2") = {s}
    /\ req[r].op = req[s].op

\* C17: for either operation and every flag setting, the request on the pod
\* without the counter label reads the same counter, computes the same new
\* value, returns the same response and leaves the same stored counter label
\* as the same request on the pod whose label is "0".
C17_AbsentIsZero ==
    \A r, s \in Reqs :
       (AbsentAndZero(r, s) /\ Done(r) /\ Done(s)) =>
          /\ req[r].labelValue = req[s].labelValue
          /\ req[r].newValue = req[s].newValue
          /\ Response(req[r]) = Response(req[s])
          /\ StoredLabel(store, "job-1") = StoredLabel(store, "job-2")
          /\ r \in Writers /\ s \in Writers

\* Both requests are answered, the decrement having written "0" on both pods.
C17_Witness ==
    \E r, s \in Reqs :
       /\ AbsentAndZero(r, s) /\ Done(r) /\ Done(s)
       /\ req[r].op = "decrement" /\ ~cfg.removeOnZero
       /\ StoredLabel(store, "job-1") = << <<"0">> >>

\* C15: once the context of an in-flight request is cancelled, the next step
\* of the request ends it, without a write (store and accepted writes as they
\* were) and without another attempt; and the request does end.
C15_Cancellation ==
    /\ [][\A r \in Reqs :
            (req[r].cancelled /\ req'[r] # req[r]) =>
               /\ req'[r].pc = "done"
               /\ req'[r].err \in {"list", "update"}
               /\ store' = store
               /\ applied' = applied]_vars
    /\ \A r \in 1..NumReqs : [](req[r].cancelled => <>(req[r].pc = "done"))

\* A request cancelled between two attempts (its first write was rejected for
\* a conflict) ended at the retry's List, without a write.
C15_Witness ==
    \E r \in Reqs :
       /\ req[r].cancelled /\ Done(r)
       /\ req[r].attempt = 2 /\ req[r].err = "list"
       /\ req[r].fetches = <<"found", "error">>
       /\ r \notin Writers

\* The errors of a store call that are no version conflict: a failed List, a
\* failed Update, an Update on a pod that is gone.
StoreErrors == {"list", "update", "gone"}

\* C19: a request goes to another attempt only from a write rejected because
\* the pod's stored version is no longer the fetched one; a List that fails
\* and an Update that fails for another reason end the request in that step,
\* with status 500, no write, and no List or Update after it.
C19_OnlyConflictRetries ==
    /\ [][\A r \in Reqs :
            /\ (req[r].pc # "fetch" /\ req'[r].pc = "fetch") =>
                  /\ req[r].pc = "update"
                  /\ req'[r].err = "conflict"
                  /\ store[req[r].podName].exists
                  /\ store[req[r].podName].rv # req[r].fetched.rv
            /\ (req'[r] # req[r] /\ req'[r].err \in StoreErrors) =>
                  /\ req'[r].pc = "done"
                  /\ req'[r].w.status = 500
                  /\ store' = store
                  /\ applied' = applied
            /\ (req[r].pc = "done") => req'[r] = req[r]]_vars
    /\ [](\A r \in Reqs :
            req[r].err \in StoreErrors =>
               /\ Done(r) /\ req[r].w.status = 500 /\ r \notin Writers
               /\ Len(req[r].fetches) = req[r].attempt)

\* One request ended at a failed List on its first attempt, another at a
\* failed Update.
C19_Witness ==
    /\ \E r \in Reqs : Done(r) /\ req[r].err = "list" /\ ~req[r].cancelled
                       /\ req[r].attempt = 1 /\ req[r].w.status = 500
    /\ \E r \in Reqs : Done(r) /\ req[r].err = "update" /\ ~req[r].cancelled
                       /\ req[r].w.status = 500

\* The pod as the store holds it now, as a List would return it.
StoredPod(p) == [name |-> p, labels |-> store[p].labels, rv |-> store[p].rv]

\* C18: every attempt that reaches its write did its own List (the pod it
\* holds is the stored pod of that moment) and computed its value from the
\* counter of that pod; an accepted write is made at the fetched version, on
\* a stored counter equal to the attempt's base, and stores one application
\* of the request's operation to it; a request has at most one accepted write.
C18_RetryRefetches ==
    /\ [][\A r \in Reqs :
            LET p == req[r].podName
            IN  /\ (req[r].pc = "fetch" /\ req'[r].pc = "update") =>
                      /\ req'[r].fetched = StoredPod(p)
                      /\ req'[r].labelValue = Counter(store, p).val
                      /\ req'[r].newValue = Callback(req[r].op, Counter(store, p).val)
                      /\ Len(req'[r].fetches) = req'[r].attempt
                /\ (r \notin Writers /\ r \in Writers') =>
                      /\ store[p].rv = req[r].fetched.rv
                      /\ Counter(store, p).val = req[r].labelValue
                      /\ Counter(store', p).ok
                      /\ Counter(store', p).val = Callback(req[r].op, Counter(store, p).val)]_vars
    /\ [](\A r \in Reqs : Cardinality({a \in applied : a.req = r}) <= 1)

\* A retry was accepted on a base its first attempt had not seen.
C18_Witness ==
    \E a \in applied :
       /\ a.attempt >= 2
       /\ a.baseRv > 1
       /\ a.base # Counter(store0, a.pod).val
       /\ Counter(store, a.pod).val = a.new

\* The accepted writes of requests of operation op.
Accepted(op) == {a \in applied : req[a.req].op = op}

\* C20 as stated: with allow-negative and no writer other than this program
\* (none has written so far), the stored counter of the pod (absent = 0) is
\* its initial value plus the accepted increments minus the accepted
\* decrements.
C20_Accounting ==
    (cfg.allowNegative /\ ext = MaxExt /\ Counter(store0, "job-1").ok) =>
       /\ Counter(store, "job-1").ok
       /\ Counter(store, "job-1").val =
             Counter(store0, "job-1").val + Cardinality(Accepted("increment"))
                                          - Cardinality(Accepted("decrement"))

\* C21: a write of this program is rejected for a version conflict only when
\* another write on the same pod was accepted after this attempt's List and
\* before its Update; so, this program's requests being the only writers of
\* an existing pod, nobody meets a conflict before the first write is
\* accepted, and once the concurrent requests have all ended at least one had
\* its write accepted and was answered 200 with its new value.
C21_Progress ==
    /\ [][\A r \in Reqs :
            (req[r].pc = "update" /\ req'[r] # req[r] /\ req'[r].err = "conflict") =>
               \E a \in applied : /\ a.pod = req[r].podName
                                  /\ a.req # r
                                  /\ a.rv > req[r].fetched.rv
                                  /\ a.rv <= store[req[r].podName].rv]_vars
    /\ [](Writers = {} => \A r \in Reqs : req[r].err = "" /\ req[r].attempt <= 1)
    /\ [](AllDone =>
            \E a \in applied : /\ req[a.req].w.status = 200
                               /\ req[a.req].w.body = Itoa(a.new)
                               /\ a.attempt = 1)

\* NumConc concurrent increments have ended: one used up its attempts on
\* conflicts, the first writer was answered 200.
C21_Witness ==
    /\ AllDone /\ Cardinality(Reqs) = NumConc
    /\ Exhausted # {}
    /\ \E a \in applied : req[a.req].w.status = 200 /\ a.baseRv = 1

\* The counter label of p is absent or an integer other than zero.
AbsentOrNonZero(st, p) ==
    \/ cfg.label \notin DOMAIN st[p].labels
    \/ Atoi(st[p].labels[cfg.label]).ok /\ Atoi(st[p].labels[cfg.label]).val # 0

\* C22: with remove-on-zero no write of this program stores the counter
\* label "0"; and from a pod whose counter label is absent or a non-zero
\* integer, while no other writer has acted, the stored counter label stays
\* absent or a non-zero integer, also when allow-negative lets the counter
\* reach zero from below.
C22_NeverStoresZero ==
    /\ [][(cfg.removeOnZero /\ applied' # applied) =>
             \A p \in PodNames :
                store'[p] # store[p] => StoredLabel(store', p) # << <<"0">> >>]_vars
    /\ []((cfg.removeOnZero /\ ext = MaxExt /\ AbsentOrNonZero(store0, "job-1"))
             => AbsentOrNonZero(store, "job-1"))

\* With allow-negative the counter went to -1 and came back to zero: the
\* increment from -1 removed the label.
C22_Witness ==
    /\ cfg.removeOnZero /\ cfg.allowNegative /\ ext = MaxExt
    /\ \E a \in LatestWrites("job-1") :
          /\ req[a.req].op = "increment" /\ a.base = -1 /\ a.new = 0
          /\ StoredLabel(store, "job-1") = <<>>

\* C23: with allow-negative off, a decrement that finds a stored counter
\* v < 0 computes 0 and goes on to its Update, sent under the fetched
\* version; the accepted write raises the stored counter to 0 (the label
\* removed under remove-on-zero, "0" otherwise) and the request ends without
\* an error.
C23_NegativeRaisedToZero ==
    [][\A r \in Reqs :
         LET p == req[r].podName
         IN  (/\ ~cfg.allowNegative /\ req[r].op = "decrement"
              /\ Counter(store, p).ok /\ Counter(store, p).val < 0
              /\ req'[r] # req[r]) =>
                IF req[r].pc = "fetch"
                THEN /\ req'[r].pc = "update"
                     /\ req'[r].labelValue = Counter(store, p).val
                     /\ req'[r].newValue = 0
                     /\ req'[r].pod.rv = store[p].rv /\ req'[r].pod.rv # 0
                ELSE /\ store'[p].rv = store[p].rv + 1
                     /\ Counter(store', p) = [ok |-> TRUE, val |-> 0]
                     /\ StoredLabel(store', p)
                           = (IF cfg.removeOnZero THEN <<>> ELSE << <<"0">> >>)
                     /\ r \in Writers'
                     /\ req'[r].pc = "done" /\ req'[r].err = ""
                     /\ req'[r].w = [status |-> 200, body |-> <<"0">>]]_vars

\* A decrement on a counter of -2 was accepted and stored "0".
C23_Witness ==
    /\ ~cfg.allowNegative /\ ~cfg.removeOnZero
    /\ Counter(store0, "job-1").val = -2
    /\ \E a \in LatestWrites("job-1") :
          /\ req[a.req].op = "decrement" /\ a.base = -2 /\ a.new = 0 /\ a.baseRv = 1
          /\ StoredLabel(store, "job-1") = << <<"0">> >>

\* Both engines have answered the same number of operations.
InStep == \E k \in 0..SeqLen : \A r \in Reqs : Done(r) <=> r <= 2 * k

\* C24 as stated: whenever the two engines have carried out the same
\* operations from the same start (label absent or a non-negative integer),
\* the pod of the increment/decrement engine under the default policy and
\* the pod of the register/unregister engine hold the same counter label.
C24_EnginesAgree ==
    InStep => StoredLabel(store, "job-1") = StoredLabel(store, "job-2")

=============================================================================
